---- MODULE Spec2Model ----
(***************************************************************************)
(* A model of amd_variant_provider: the ROCm detection engine of           *)
(* detect_rocm.py (probe strategies, the get_system_info orchestrator and  *)
(* its lru_cache) and the feature reporter of plugin.py.                   *)
(*                                                                         *)
(* Text (file contents, command output, environment values) is a sequence  *)
(* of one-character strings, so that split / strip / int / regex matching  *)
(* and sorted() are computed, not assumed.  A Python dict is a function    *)
(* whose DOMAIN is the set of keys present; None is the empty sequence.    *)
(***************************************************************************)
EXTENDS Integers, Sequences, FiniteSets, TLC

VARIABLES
    host,       \* what the probes find on this machine (fixed per behaviour)
    environ,    \* os.environ entries the code reads (fixed per behaviour)
    lru,        \* the lru_cache(maxsize=1) slot of get_system_info
    inst,       \* AMDVariantPlugin instance __dict__ slot of _system_info
    pc,         \* per thread: "idle", "gsi" or "rep" (inside the probe body)
    ret,        \* per thread: outcome of its last completed call
    lastRun,    \* outcome of the latest execution of get_system_info's body
    runs,       \* how many times get_system_info's body has been executed
    done,       \* some get_system_info call has completed (returned / raised)
    late,       \* per thread: its current / last call began when done held
    callsLeft   \* calls the process may still start

vars == <<host, environ, lru, inst, pc, ret, lastRun, runs, done, late, callsLeft>>

Threads == {"t1", "t2"}

\* Total number of calls started in a behaviour of Spec.
MaxCalls == 3

None == <<>>
EmptyDict == <<>>

Put(d, k, v) == [x \in (DOMAIN d) \cup {k} |-> IF x = k THEN v ELSE d[x]]

Has(d, k) == k \in DOMAIN d

---------------------------------------------------------------------------
(* Characters                                                              *)

DigitSeq == <<"0", "1", "2", "3", "4", "5", "6", "7", "8", "9">>

LowerSeq == <<"a", "b", "c", "d", "e", "f", "g", "h", "i", "j", "k", "l", "m",
              "n", "o", "p", "q", "r", "s", "t", "u", "v", "w", "x", "y", "z">>

UpperSeq == <<"A", "B", "C", "D", "E", "F", "G", "H", "I", "J", "K", "L", "M",
              "N", "O", "P", "Q", "R", "S", "T", "U", "V", "W", "X", "Y", "Z">>

\* The characters of the model's texts in code-point order (sorted() compares
\* str by code point).
CodePointOrder ==
    <<"\t", "\n", " ", "+", ",", "-", ".">> \o DigitSeq \o <<":", ";">>
        \o UpperSeq \o <<"_">> \o LowerSeq

Range(s) == {s[i] : i \in DOMAIN s}

Digits == Range(DigitSeq)

HexLower == Digits \cup {"a", "b", "c", "d", "e", "f"}

WordChars == Digits \cup Range(UpperSeq) \cup Range(LowerSeq) \cup {"_"}

Whitespace == {" ", "\t", "\n"}

Ord(c) == CHOOSE i \in DOMAIN CodePointOrder : CodePointOrder[i] = c

DigitVal(c) == (CHOOSE i \in DOMAIN DigitSeq : DigitSeq[i] = c) - 1

---------------------------------------------------------------------------
(* str / re / int primitives                                               *)

\* int(s) succeeds: s is a non-empty run of decimal digits.
IntOk(s) == Len(s) > 0 /\ \A i \in DOMAIN s : s[i] \in Digits

RECURSIVE IntVal(_)
IntVal(s) ==
    IF s = <<>> THEN 0
    ELSE 10 * IntVal(SubSeq(s, 1, Len(s) - 1)) + DigitVal(s[Len(s)])

\* s.split(sep) / re.split(r"[...]", s) for one-character separators: every
\* separator cuts, empty parts are kept.
RECURSIVE SplitOn(_, _)
SplitOn(s, seps) ==
    IF s = <<>> THEN << <<>> >>
    ELSE LET rest == SplitOn(Tail(s), seps)
         IN  IF Head(s) \in seps
             THEN << <<>> >> \o rest
             ELSE << <<Head(s)>> \o Head(rest) >> \o Tail(rest)

RECURSIVE LStrip(_)
LStrip(s) ==
    IF s # <<>> /\ Head(s) \in Whitespace THEN LStrip(Tail(s)) ELSE s

RECURSIVE RStrip(_)
RStrip(s) ==
    IF s # <<>> /\ s[Len(s)] \in Whitespace
    THEN RStrip(SubSeq(s, 1, Len(s) - 1)) ELSE s

Strip(s) == RStrip(LStrip(s))

\* str.lower() on the characters of the model.
LowerChar(c) ==
    IF c \in Range(UpperSeq)
    THEN LowerSeq[CHOOSE i \in DOMAIN UpperSeq : UpperSeq[i] = c]
    ELSE c

Lower(s) == [i \in DOMAIN s |-> LowerChar(s[i])]

\* a < b for str: lexicographic by code point.
LexLess(a, b) ==
    \E i \in 1..(Len(a) + 1) :
        /\ i <= Len(b)
        /\ \A j \in 1..(i - 1) : a[j] = b[j]
        /\ (i = Len(a) + 1 \/ Ord(a[i]) < Ord(b[i]))

\* sorted(S) of a set of str.
RECURSIVE SortedSet(_)
SortedSet(S) ==
    IF S = {} THEN <<>>
    ELSE LET m == CHOOSE x \in S : \A y \in S \ {x} : LexLess(x, y)
         IN  <<m>> \o SortedSet(S \ {m})

\* The maximal runs of \w characters of a text, in order.
RECURSIVE WordRuns(_)
WordRuns(s) ==
    IF s = <<>> THEN <<>>
    ELSE IF Head(s) \notin WordChars THEN WordRuns(Tail(s))
    ELSE LET n == CHOOSE k \in 1..Len(s) :
                      /\ \A i \in 1..k : s[i] \in WordChars
                      /\ (k = Len(s) \/ s[k + 1] \notin WordChars)
         IN  <<SubSeq(s, 1, n)>> \o WordRuns(SubSeq(s, n + 1, Len(s)))

\* _GFX_REGEX = \b(gfx\d+[0-9a-f]*)\b.  Both \b lie inside or at the ends of
\* a run of \w characters, and every character the pattern consumes is a \w
\* character, so a match is a whole maximal run of the form gfx, a digit,
\* then digits or a-f.
GfxFullMatch(w) ==
    /\ Len(w) >= 4
    /\ SubSeq(w, 1, 3) = <<"g", "f", "x">>
    /\ w[4] \in Digits
    /\ \A i \in 5..Len(w) : w[i] \in HexLower

\* _GFX_REGEX.findall(text): the matches in order of occurrence.
GFX_REGEX_findall(text) == SelectSeq(WordRuns(text), GfxFullMatch)

\* _GFX_REGEX.search(line): the first match, or None.
GFX_REGEX_search(line) ==
    LET all == GFX_REGEX_findall(line)
    IN  IF all = <<>> THEN None ELSE all[1]

---------------------------------------------------------------------------
(* Version patterns                                                        *)

LiteralAt(s, i, lit) ==
    /\ i + Len(lit) - 1 <= Len(s)
    /\ SubSeq(s, i, i + Len(lit) - 1) = lit

\* Length of the maximal run of characters of class cls that starts at i.
ClassRun(s, i, cls) ==
    IF i > Len(s) THEN 0
    ELSE CHOOSE n \in 0..(Len(s) - i + 1) :
             /\ \A j \in i..(i + n - 1) : s[j] \in cls
             /\ (i + n > Len(s) \/ s[i + n] \notin cls)

\* The groups of (\d+)\.(\d+)\.(\d+) as int, given the "."-separated parts of
\* the run of digits and dots the match starts in: the first three parts,
\* each a non-empty run of digits.
TripletOf(parts) ==
    IF Len(parts) >= 3 /\ \A i \in 1..3 : parts[i] # <<>>
    THEN <<IntVal(parts[1]), IntVal(parts[2]), IntVal(parts[3])>>
    ELSE None

\* (\d+)\.(\d+)\.(\d+) matched at index p, as a tuple of int, or None.
TripletAt(s, p) ==
    TripletOf(SplitOn(SubSeq(s, p, p + ClassRun(s, p, Digits \cup {"."}) - 1),
                      {"."}))

Leftmost(S) == CHOOSE x \in S : \A y \in S : x <= y

RockLiteral ==
    <<"R", "O", "C", "k", " ", "m", "o", "d", "u", "l", "e", " ", "v", "e",
      "r", "s", "i", "o", "n", " ">>

\* _KMD_VERSION_REGEX_IN_ROCMINFO.search(output): the groups of the leftmost
\* match as int, or None.
KmdAtLeftmost(output, hits) ==
    IF hits = {} THEN None
    ELSE TripletAt(output, Leftmost(hits) + Len(RockLiteral))

KMD_VERSION_REGEX_IN_ROCMINFO_search(output) ==
    KmdAtLeftmost(output,
        {i \in 1..Len(output) :
            /\ LiteralAt(output, i, RockLiteral)
            /\ TripletAt(output, i + Len(RockLiteral)) # None})

RocmLiteral == <<"r", "o", "c", "m">>

VersionLiteral == <<"v", "e", "r", "s", "i", "o", "n">>

\* (\d+)\.(\d+) matched at index r: <<major, minor>> as int, or None.
PairOf(parts) ==
    IF Len(parts) >= 2 /\ \A i \in 1..2 : parts[i] # <<>>
    THEN <<IntVal(parts[1]), IntVal(parts[2])>>
    ELSE None

PairAt(s, r) ==
    PairOf(SplitOn(SubSeq(s, r, r + ClassRun(s, r, Digits \cup {"."}) - 1),
                   {"."}))

\* The index after the optional (?:\s+Version) at index p.
AfterVersionWord(s, p, ws) ==
    IF ws >= 1 /\ LiteralAt(Lower(s), p + ws, VersionLiteral)
    THEN p + ws + Len(VersionLiteral) ELSE p

SkipClass(s, q, cls) == q + ClassRun(s, q, cls)

\* _ROCM_VERSION_REGEX (re.IGNORECASE) matched at index i: <<major, minor>>
\* or None.  ROCm(?:\s+Version)?[:\s]*(\d+)\.(\d+)(?:\.\d+)?
RocmVersionAt(s, i) ==
    IF ~LiteralAt(Lower(s), i, RocmLiteral) THEN None
    ELSE PairAt(s, SkipClass(s,
                       AfterVersionWord(s, i + Len(RocmLiteral),
                           ClassRun(s, i + Len(RocmLiteral), Whitespace)),
                       Whitespace \cup {":"}))

\* _ROCM_VERSION_REGEX.search(text): the groups of the leftmost match as int,
\* or None.
RocmAtLeftmost(text, hits) ==
    IF hits = {} THEN None ELSE RocmVersionAt(text, Leftmost(hits))

ROCM_VERSION_REGEX_search(text) ==
    RocmAtLeftmost(text, {i \in 1..Len(text) : RocmVersionAt(text, i) # None})

\* The pattern literal handed to re.search in _get_amdgpu_kmd_version.
ModinfoPattern ==
    <<"^", "v", "e", "r", "s", "i", "o", "n", ":", "\\", "s", "*", "(",
      "\\", "d", "+", ")", "\\", ".", "(", "\\", "d", "+", ")", ".", "(",
      "\\", "d", "+", ")", ")">>

\* re compiles a pattern only if its unescaped parentheses balance.
RECURSIVE ParensBalanced(_, _, _)
ParensBalanced(p, i, depth) ==
    IF i > Len(p) THEN depth = 0
    ELSE IF p[i] = "\\" THEN ParensBalanced(p, i + 2, depth)
    ELSE IF p[i] = "(" THEN ParensBalanced(p, i + 1, depth + 1)
    ELSE IF p[i] = ")"
         THEN depth > 0 /\ ParensBalanced(p, i + 1, depth - 1)
    ELSE ParensBalanced(p, i + 1, depth)

ReCompiles(p) == ParensBalanced(p, 1, 0)

ModinfoLiteral == <<"v", "e", "r", "s", "i", "o", "n", ":">>

\* The groups at index i of a line start: "version:", blanks, a triplet.
ModinfoVersionAt(stdout, i) ==
    TripletAt(stdout, SkipClass(stdout, i + Len(ModinfoLiteral), Whitespace))

ModinfoAtLeftmost(stdout, hits) ==
    IF hits = {} THEN None ELSE ModinfoVersionAt(stdout, Leftmost(hits))

\* re.search(pattern, stdout, re.MULTILINE) of _get_amdgpu_kmd_version:
\* re.error when the pattern does not compile, else the groups, as int, of
\* the first line that starts with "version:", blanks, then a triplet (the
\* pattern's unescaped second "." is read as a literal dot).
modinfo_re_search(stdout) ==
    IF ~ReCompiles(ModinfoPattern)
    THEN [exc |-> "re.error", val |-> None]
    ELSE [exc |-> "none",
          val |-> ModinfoAtLeftmost(stdout,
                      {i \in 1..Len(stdout) :
                          /\ (i = 1 \/ stdout[i - 1] = "\n")
                          /\ LiteralAt(stdout, i, ModinfoLiteral)
                          /\ ModinfoVersionAt(stdout, i) # None})]

---------------------------------------------------------------------------
(* Probe strategies of detect_rocm.py                                      *)

\* AMDVariantFeatureKey of detect_rocm.py.
ROCM_VERSION == "rocm_version"

KMD_VERSION == "kmd_version"

GFX_ARCHS == "gfx_archs"

Gfx(suffix) == <<"g", "f", "x">> \o suffix

\* The built-in list of _get_info_from_rocminfo.
DefaultGfxCode ==
    <<Gfx(<<"9", "0", "0">>), Gfx(<<"9", "0", "6">>), Gfx(<<"9", "0", "8">>),
      Gfx(<<"9", "0", "a">>), Gfx(<<"9", "4", "2">>),
      Gfx(<<"1", "0", "3", "0">>), Gfx(<<"1", "1", "0", "0">>),
      Gfx(<<"1", "1", "0", "1">>), Gfx(<<"1", "1", "0", "2">>),
      Gfx(<<"1", "2", "0", "0">>), Gfx(<<"1", "2", "0", "1">>)>>

StripAll(parts) == [i \in DOMAIN parts |-> Strip(parts[i])]

NonEmpty(parts) == SelectSeq(parts, LAMBDA g : g # <<>>)

OrDefault(custom) == IF custom # <<>> THEN custom ELSE DefaultGfxCode

\* GFX_CODE: AMD_PREFERRED_GFX_ARCHS split on ",", each part stripped, empty
\* parts dropped; the built-in list when that leaves nothing.
GFX_CODE(e) ==
    OrDefault(NonEmpty(StripAll(SplitOn(e.AMD_PREFERRED_GFX_ARCHS, {","}))))

\* KMDVersion(*map(int, parts)): ValueError from int, TypeError from more
\* than three positional arguments, missing fields default to 0.
KMDVersionOfParts(parts) ==
    IF \E i \in DOMAIN parts : ~IntOk(parts[i])
    THEN [exc |-> "ValueError", val |-> None]
    ELSE IF Len(parts) > 3
    THEN [exc |-> "TypeError", val |-> None]
    ELSE [exc |-> "none",
          val |-> [i \in 1..3 |->
                      IF i <= Len(parts) THEN IntVal(parts[i]) ELSE 0]]

KmdResult(r, path, spawned) ==
    [exc |-> r.exc, val |-> r.val, path |-> path, spawned |-> spawned]

\* _get_amdgpu_kmd_version: sysfs first, modinfo when sysfs returned nothing.
\* path lists the strategies tried, spawned the subprocesses attempted.
get_amdgpu_kmd_version(h) ==
    IF h.sysfs.st = "ok" /\ Strip(h.sysfs.text) # <<>>
    THEN KmdResult(KMDVersionOfParts(SplitOn(Strip(h.sysfs.text), {"."})),
                   <<"sysfs">>, <<>>)
    ELSE IF h.modinfo.st # "ok"
    THEN KmdResult([exc |-> "none", val |-> None],
                   <<"sysfs", "modinfo">>, <<"modinfo">>)
    ELSE KmdResult(modinfo_re_search(h.modinfo.out),
                   <<"sysfs", "modinfo">>, <<"modinfo">>)

DropLastIfEmpty(parts) ==
    IF parts[Len(parts)] = <<>> THEN SubSeq(parts, 1, Len(parts) - 1) ELSE parts

\* proc.stdout.splitlines() for "\n" line ends.
SplitLines(s) ==
    IF s = <<>> THEN <<>> ELSE DropLastIfEmpty(SplitOn(s, {"\n"}))

\* tok of each line: the first match lowered, or None.
LineToks(lines) ==
    [i \in DOMAIN lines |-> Lower(GFX_REGEX_search(lines[i]))]

\* The loop of _get_gfx_from_agent_enumerator: "gfx000" is the CPU.
GpuToks(toks) ==
    SelectSeq(toks, LAMBDA tok : tok # None /\ tok # Gfx(<<"0", "0", "0">>))

\* _get_gfx_from_agent_enumerator.
get_gfx_from_agent_enumerator(h) ==
    IF h.enumerator.st = "missing"
    THEN [val |-> <<>>, spawned |-> <<>>]
    ELSE IF h.enumerator.st = "failed"
    THEN [val |-> <<>>, spawned |-> <<"rocm_agent_enumerator">>]
    ELSE [val |-> SortedSet(Range(GpuToks(LineToks(SplitLines(h.enumerator.out))))),
          spawned |-> <<"rocm_agent_enumerator">>]

\* The KMD part of _get_info_from_rocminfo.
rocminfo_kmd(kmd_version_match) ==
    IF kmd_version_match # None
    THEN Put(EmptyDict, KMD_VERSION, kmd_version_match) ELSE EmptyDict

\* The GFX part of _get_info_from_rocminfo: the sorted unique matches, kept
\* only when every one of them is in GFX_CODE.
rocminfo_gfx(info, gfx_matches, allowed) ==
    IF /\ gfx_matches # <<>>
       /\ \A x \in Range(SortedSet(Range(gfx_matches))) : x \in Range(allowed)
    THEN Put(info, GFX_ARCHS, SortedSet(Range(gfx_matches)))
    ELSE info

\* _get_info_from_rocminfo.  Every exception raised under the try is caught.
get_info_from_rocminfo(h, e) ==
    IF h.platform # "Linux"
    THEN [info |-> EmptyDict, spawned |-> <<>>]
    ELSE IF h.rocminfo.st = "missing"
    THEN [info |-> EmptyDict, spawned |-> <<>>]
    ELSE IF h.rocminfo.st = "failed"
    THEN [info |-> EmptyDict, spawned |-> <<"rocminfo">>]
    ELSE [info |-> rocminfo_gfx(
                       rocminfo_kmd(
                           KMD_VERSION_REGEX_IN_ROCMINFO_search(h.rocminfo.out)),
                       GFX_REGEX_findall(h.rocminfo.out), GFX_CODE(e)),
          spawned |-> <<"rocminfo">>]

\* ROCmVersion from the parts of the version file, or None (ValueError from
\* int is caught).
ROCmVersionOfParts(parts) ==
    IF Len(parts) >= 3
    THEN IF \A i \in 1..3 : IntOk(parts[i])
         THEN <<IntVal(parts[1]), IntVal(parts[2]), IntVal(parts[3])>>
         ELSE None
    ELSE IF Len(parts) >= 2
    THEN IF \A i \in 1..2 : IntOk(parts[i])
         THEN <<IntVal(parts[1]), IntVal(parts[2]), 0>>
         ELSE None
    ELSE None

\* _get_rocm_version_from_dir: ROCmVersion as <<major, minor, patch>>, or None
\* (no version file, or IOError from read_text, which is caught).
get_rocm_version_from_dir(h) ==
    IF h.vfile.st # "ok" THEN None
    ELSE ROCmVersionOfParts(SplitOn(Strip(h.vfile.text), {".", "-"}))

Step(name, got) == [s |-> name, got |-> got]

Yield(key, val) == IF val # None THEN Put(EmptyDict, key, val) ELSE EmptyDict

Acc(info, steps, spawned) ==
    [info |-> info, steps |-> steps, spawned |-> spawned]

\* get_system_info, strategy 1: steps lists the strategies in the order they
\* were entered, each with the fields it yielded; spawned lists the
\* subprocesses attempted.
from_rocminfo(primary) ==
    Acc(primary.info, <<Step("rocminfo", primary.info)>>, primary.spawned)

\* NotIn with the membership test lost: every fallback runs and assigns.
NotInAlways(key, info) == TRUE

\* The guard of each fallback of get_system_info.
NotIn(key, info) == ~Has(info, key)

\* get_system_info: the version-file fallback for the ROCm version.
fallback_rocm_version(acc, version) ==
    IF NotIn(ROCM_VERSION, acc.info)
    THEN Acc(IF version # None
             THEN Put(acc.info, ROCM_VERSION, version) ELSE acc.info,
             Append(acc.steps, Step("version_file", Yield(ROCM_VERSION, version))),
             acc.spawned)
    ELSE acc

\* get_system_info: the rocm_agent_enumerator fallback for the GFX list.
fallback_gfx_archs(acc, from_agent) ==
    IF NotIn(GFX_ARCHS, acc.info)
    THEN Acc(IF from_agent.val # <<>>
             THEN Put(acc.info, GFX_ARCHS, from_agent.val) ELSE acc.info,
             Append(acc.steps,
                    Step("rocm_agent_enumerator", Yield(GFX_ARCHS, from_agent.val))),
             acc.spawned \o from_agent.spawned)
    ELSE acc

\* The steps of _get_amdgpu_kmd_version: the last strategy tried yields the
\* version unless it raised.
KmdSteps(kmd) ==
    [i \in DOMAIN kmd.path |->
        Step(kmd.path[i],
             IF i = Len(kmd.path) /\ kmd.exc = "none"
             THEN Yield(KMD_VERSION, kmd.val) ELSE EmptyDict)]

\* get_system_info: the sysfs / modinfo fallback for the KMD version, and the
\* return; exc is the exception that leaves the body, if any.
fallback_kmd_version(acc, kmd) ==
    IF NotIn(KMD_VERSION, acc.info)
    THEN [exc |-> kmd.exc,
          info |-> IF kmd.exc = "none"
                   THEN Put(acc.info, KMD_VERSION, kmd.val) ELSE EmptyDict,
          steps |-> acc.steps \o KmdSteps(kmd),
          spawned |-> acc.spawned \o kmd.spawned]
    ELSE [exc |-> "none", info |-> acc.info, steps |-> acc.steps,
          spawned |-> acc.spawned]

\* The body of get_system_info.
get_system_info(h, e) ==
    fallback_kmd_version(
        fallback_gfx_archs(
            fallback_rocm_version(
                from_rocminfo(get_info_from_rocminfo(h, e)),
                get_rocm_version_from_dir(h)),
            get_gfx_from_agent_enumerator(h)),
        get_amdgpu_kmd_version(h))

---------------------------------------------------------------------------
(* Hosts and environments                                                  *)

\* Lines of rocminfo output.
LineRock ==
    <<"R", "O", "C", "k", " ", "m", "o", "d", "u", "l", "e", " ", "v", "e",
      "r", "s", "i", "o", "n", " ", "6", ".", "1", "0", ".", "5", " ", "i",
      "s", " ", "l", "o", "a", "d", "e", "d", "\n">>

LineRocm ==
    <<"R", "O", "C", "m", " ", "V", "e", "r", "s", "i", "o", "n", ":", " ",
      "6", ".", "4", ".", "3", "\n">>

LineGfx90a ==
    <<" ", " ", "N", "a", "m", "e", ":", " ", "g", "f", "x", "9", "0", "a",
      "\n">>

LineIsa90a ==
    <<" ", " ", "N", "a", "m", "e", ":", " ", "a", "m", "d", "g", "c", "n",
      "-", "a", "m", "d", "-", "a", "m", "d", "h", "s", "a", "-", "-", "g",
      "f", "x", "9", "0", "a", ":", "s", "r", "a", "m", "e", "c", "c", "+",
      ":", "x", "n", "a", "c", "k", "-", "\n">>

LineGfx1100 ==
    <<" ", " ", "N", "a", "m", "e", ":", " ", "g", "f", "x", "1", "1", "0",
      "0", "\n">>

LineGfx1150 ==
    <<" ", " ", "N", "a", "m", "e", ":", " ", "g", "f", "x", "1", "1", "5",
      "0", "\n">>

\* Outputs of rocm_agent_enumerator -name.
EnumCpuAndGpu ==
    <<"g", "f", "x", "0", "0", "0", "\n", "g", "f", "x", "9", "0", "a", "\n">>

EnumUnlisted ==
    <<"g", "f", "x", "1", "1", "5", "0", "\n">>

\* Output of modinfo amdgpu (the version line).
ModinfoStdout ==
    <<"v", "e", "r", "s", "i", "o", "n", ":", " ", " ", " ", " ", " ", " ",
      " ", " ", "6", ".", "8", ".", "5", "\n">>

\* Contents of /sys/module/amdgpu/version.
Sysfs3 ==
    <<"6", ".", "8", ".", "5", "\n">>

Sysfs2 ==
    <<"6", ".", "8", "\n">>

Sysfs4 ==
    <<"6", ".", "8", ".", "5", ".", "1", "\n">>

SysfsRc ==
    <<"6", ".", "8", ".", "5", "-", "r", "c", "1", "\n">>

\* Contents of <rocm>/.info/version.
Vfile3 ==
    <<"6", ".", "4", ".", "1", "\n">>

VfileBuild ==
    <<"6", ".", "4", ".", "1", "-", "9", "8", "\n">>

Vfile2 ==
    <<"6", ".", "4", "\n">>

Vfile1 ==
    <<"6", "\n">>

VfileBad ==
    <<"6", ".", "4", ".", "x", "\n">>

\* Values of AMD_PREFERRED_GFX_ARCHS, AMD_VARIANT_PROVIDER_GFX_ARCH and
\* AMD_VARIANT_PROVIDER_ROCM_VERSION (an unset variable is the empty text).
PreferredCustom ==
    <<" ", "g", "f", "x", "1", "1", "5", "0", ",", " ", "g", "f", "x", "9",
      "0", "a">>

ForcedGfxOne ==
    <<"g", "f", "x", "9", "4", "2">>

ForcedGfxList ==
    <<"g", "f", "x", "9", "0", "a", ",", " ", "g", "f", "x", "1", "1", "0",
      "0", ";", ";", "g", "f", "x", "9", "4", "2", " ">>

ForcedGfxSeps ==
    <<" ", ",", ";", " ">>

ForcedRocm3 ==
    <<"7", ".", "0", ".", "0">>

ForcedRocm2 ==
    <<"7", ".", "0">>

ForcedRocmAlpha ==
    <<"7", ".", "x", ".", "0">>

ForcedRocm4 ==
    <<"7", ".", "0", ".", "0", ".", "1">>

File(st, text) == [st |-> st, text |-> text]

Cmd(st, out) == [st |-> st, out |-> out]

Platforms == {"Linux", "Darwin"}

\* rocminfo: not on PATH, non-zero exit or timeout, or output.
RocminfoOutputs ==
    {<<>>,
     LineRock \o LineGfx90a \o LineIsa90a \o LineGfx1100,
     LineRocm \o LineRock \o LineGfx90a,
     LineGfx90a \o LineGfx1150}

RocminfoOutcomes ==
    {Cmd("missing", <<>>), Cmd("failed", <<>>)}
        \cup {Cmd("ok", o) : o \in RocminfoOutputs}

EnumeratorOutcomes ==
    {Cmd("missing", <<>>), Cmd("failed", <<>>),
     Cmd("ok", EnumCpuAndGpu), Cmd("ok", EnumUnlisted)}

SysfsOutcomes ==
    {File("absent", <<>>), File("unreadable", <<>>)}
        \cup {File("ok", x) : x \in {<<>>, Sysfs3, Sysfs2, Sysfs4, SysfsRc}}

ModinfoOutcomes ==
    {Cmd("missing", <<>>), Cmd("failed", <<>>), Cmd("ok", ModinfoStdout)}

VfileOutcomes ==
    {File("absent", <<>>), File("unreadable", <<>>)}
        \cup {File("ok", x) : x \in {Vfile3, VfileBuild, Vfile2, Vfile1, VfileBad}}

Hosts ==
    [platform : Platforms, rocminfo : RocminfoOutcomes,
     enumerator : EnumeratorOutcomes, sysfs : SysfsOutcomes,
     modinfo : ModinfoOutcomes, vfile : VfileOutcomes]

\* The hosts of the process-level specifications: one outcome of each kind
\* per strategy.
ProcHosts ==
    {h \in Hosts :
        /\ h.rocminfo \in {Cmd("missing", <<>>),
                           Cmd("ok", LineRock \o LineGfx90a \o LineIsa90a
                                         \o LineGfx1100)}
        /\ h.enumerator = Cmd("missing", <<>>)
        /\ h.sysfs \in {File("absent", <<>>), File("ok", Sysfs3),
                        File("ok", SysfsRc)}
        /\ h.modinfo \in {Cmd("missing", <<>>), Cmd("ok", ModinfoStdout)}
        /\ h.vfile \in {File("absent", <<>>), File("ok", Vfile3)}}

Env(preferred, gfx, rocm) ==
    [AMD_PREFERRED_GFX_ARCHS |-> preferred,
     AMD_VARIANT_PROVIDER_GFX_ARCH |-> gfx,
     AMD_VARIANT_PROVIDER_ROCM_VERSION |-> rocm]

DetectEnvirons == {Env(p, <<>>, <<>>) : p \in {<<>>, PreferredCustom}}

ProcEnvirons ==
    {Env(<<>>, g, r) : g \in {<<>>, ForcedGfxOne}, r \in {<<>>, ForcedRocm3}}

ReportEnvirons ==
    {Env(<<>>, g, r) :
        g \in {<<>>, ForcedGfxOne, ForcedGfxList, ForcedGfxSeps},
        r \in {<<>>, ForcedRocm3, ForcedRocm2, ForcedRocmAlpha, ForcedRocm4}}

---------------------------------------------------------------------------
(* Feature reporter of plugin.py                                           *)
(* The methods of AMDVariantPlugin are modelled as their bodies read.      *)
(* Lines 163-172 of the file (the main() entry point) each start with a    *)
(* '+', so the file as it stands does not compile; the model takes the     *)
(* class as it runs once those ten lines lose that first character.        *)

\* AMDVariantFeatureKey of plugin.py.
FeatureROCm == "rocm_version"

FeatureGFX == "gfx_arch"

\* Names bound at module level in plugin.py.
PluginGlobals ==
    {"annotations", "logging", "os", "sys", "re", "dataclass",
     "cached_property", "Any", "List", "Protocol", "runtime_checkable",
     "get_system_info", "ROCmEnvironment", "logger", "VariantPropertyType",
     "VariantFeatureConfig", "AMDVariantFeatureKey", "AMDVariantPlugin",
     "main"}

\* A name used in a function body resolves to a local or a module global; a
\* class attribute is not in scope.
Resolves(name, locals) == name \in locals \cup PluginGlobals

DictGet(d, k) == IF Has(d, k) THEN d[k] ELSE None

VariantFeatureConfig(name, values) == [name |-> name, values |-> values]

\* re.split(r"[,\s;]+", text.strip()) with every part stripped and the empty
\* parts dropped.
SplitList(text) ==
    SelectSeq(SplitOn(Strip(text), {",", ";"} \cup Whitespace),
              LAMBDA part : part # <<>>)

\* AMDVariantPlugin._parse_list_env.
parse_list_env(env_val) ==
    IF ~Resolves("envval", {"env_val"})
    THEN [exc |-> "NameError", val |-> None]
    ELSE [exc |-> "none",
          val |-> IF env_val = <<>> THEN <<>> ELSE SplitList(env_val)]

\* gfx_names of get_supported_configs: the detected list under the key the
\* reporter reads, or the parsed AMD_VARIANT_PROVIDER_GFX_ARCH.
gfx_names_of(system_info, e) ==
    IF e.AMD_VARIANT_PROVIDER_GFX_ARCH = <<>>
    THEN [exc |-> "none", val |-> DictGet(system_info, "gfx_names")]
    ELSE IF ~Resolves("_parse_list_env",
                      {"self", "known_properties", "configs", "env_gfx"})
    THEN [exc |-> "NameError", val |-> None]
    ELSE parse_list_env(e.AMD_VARIANT_PROVIDER_GFX_ARCH)

\* gfx_feature with the truthiness test lost: the feature is always appended.
gfx_feature_unguarded(gfx_names) ==
    <<VariantFeatureConfig(FeatureGFX, gfx_names)>>

\* Priority 1: the architecture feature, when gfx_names is truthy.
gfx_feature(gfx_names) ==
    IF gfx_names # <<>>
    THEN <<VariantFeatureConfig(FeatureGFX, gfx_names)>> ELSE <<>>

\* rocm_version of get_supported_configs with its Python type: the str of
\* AMD_VARIANT_PROVIDER_ROCM_VERSION, else the detected ROCmVersion, else None.
rocm_version_of(system_info, e) ==
    IF e.AMD_VARIANT_PROVIDER_ROCM_VERSION # <<>>
    THEN [type |-> "str", str |-> e.AMD_VARIANT_PROVIDER_ROCM_VERSION,
          obj |-> None]
    ELSE IF Has(system_info, "rocm_version")
    THEN [type |-> "ROCmVersion", str |-> <<>>,
          obj |-> system_info["rocm_version"]]
    ELSE [type |-> "NoneType", str |-> <<>>, obj |-> None]

RECURSIVE IntToText(_)
IntToText(n) ==
    IF n < 10 THEN <<DigitSeq[n + 1]>>
    ELSE IntToText(n \div 10) \o <<DigitSeq[(n % 10) + 1]>>

\* Priority 2: the runtime-version feature, for a tuple or a str.
rocm_feature(rocm_version) ==
    IF rocm_version.type = "NoneType" THEN <<>>
    ELSE IF rocm_version.type = "tuple"
    THEN <<VariantFeatureConfig(FeatureROCm,
               << <<"r", "o", "c", "m">> \o IntToText(rocm_version.obj[1])
                      \o <<".">> \o IntToText(rocm_version.obj[2]) >>)>>
    ELSE IF rocm_version.type = "str"
    THEN <<VariantFeatureConfig(FeatureROCm, <<rocm_version.str>>)>>
    ELSE <<>>

\* get_supported_configs, given the value of self._system_info.
get_supported_configs(system_info, e) ==
    LET names == gfx_names_of(system_info, e)
    IN  IF names.exc # "none"
        THEN [exc |-> names.exc, configs |-> <<>>]
        ELSE [exc |-> "none",
              configs |-> gfx_feature(names.val)
                          \o rocm_feature(rocm_version_of(system_info, e))]

\* Whether get_supported_configs reaches a read of self._system_info.
UsesSystemInfo(e) ==
    \/ e.AMD_VARIANT_PROVIDER_GFX_ARCH = <<>>
    \/ /\ gfx_names_of(EmptyDict, e).exc = "none"
       /\ e.AMD_VARIANT_PROVIDER_ROCM_VERSION = <<>>

\* The text a pattern ending in $ has to match in full: $ matches at the end
\* and also just before a newline that ends the text.
DollarTrim(value) ==
    IF value # <<>> /\ value[Len(value)] = "\n"
    THEN SubSeq(value, 1, Len(value) - 1) ELSE value

RocmPrefix == <<"r", "o", "c", "m">>

\* re.match(r"^rocm\d+\.\d+$", value)
RocmValueMatch(value) ==
    /\ LiteralAt(DollarTrim(value), 1, RocmPrefix)
    /\ Len(SplitOn(SubSeq(DollarTrim(value), Len(RocmPrefix) + 1,
                          Len(DollarTrim(value))), {"."})) = 2
    /\ \A part \in Range(SplitOn(SubSeq(DollarTrim(value), Len(RocmPrefix) + 1,
                                        Len(DollarTrim(value))), {"."})) :
           IntOk(part)

\* re.match(r"^gfx\d+[0-9a-f]*$", value)
GfxValueMatch(value) == GfxFullMatch(DollarTrim(value))

\* AMDVariantPlugin.validate_property for a property of namespace "amd".
validate_property(feature, value) ==
    IF feature = FeatureROCm THEN RocmValueMatch(value)
    ELSE IF feature = FeatureGFX THEN GfxValueMatch(value)
    ELSE FALSE

---------------------------------------------------------------------------
(* The process: threads calling get_system_info() and                      *)
(* AMDVariantPlugin.get_supported_configs() on one plugin instance.        *)
(* lru_cache looks the key up, calls the function on a miss without        *)
(* holding a lock, and stores the result unless the key was stored         *)
(* meanwhile; an exception stores nothing.  cached_property is modelled    *)
(* without a lock (Python 3.12 and later).                                 *)

Slot(full, val) == [full |-> full, val |-> val]

NoRun == [exc |-> "none", info |-> EmptyDict, steps |-> <<>>, spawned |-> <<>>]

Outcome(op, exc, info, configs, hit) ==
    [op |-> op, exc |-> exc, info |-> info, configs |-> configs, hit |-> hit]

NoRet == Outcome("none", "none", EmptyDict, <<>>, FALSE)

InitProcess ==
    /\ lru = Slot(FALSE, EmptyDict)
    /\ inst = Slot(FALSE, EmptyDict)
    /\ pc = [t \in Threads |-> "idle"]
    /\ ret = [t \in Threads |-> NoRet]
    /\ lastRun = NoRun
    /\ runs = 0
    /\ done = FALSE
    /\ late = [t \in Threads |-> FALSE]

Init ==
    /\ host \in ProcHosts
    /\ environ \in ProcEnvirons
    /\ callsLeft = MaxCalls
    /\ InitProcess

\* The stored slot after a body execution with outcome o.
lru_store(slot, o) ==
    IF o.exc = "none" /\ ~slot.full THEN Slot(TRUE, o.info) ELSE slot

\* get_system_info(): the lru_cache lookup; a hit returns at once.
GsiCall(t) ==
    /\ pc[t] = "idle"
    /\ callsLeft > 0
    /\ callsLeft' = callsLeft - 1
    /\ late' = [late EXCEPT ![t] = done]
    /\ IF lru.full
       THEN /\ ret' = [ret EXCEPT ![t] =
                          Outcome("get_system_info", "none", lru.val, <<>>, TRUE)]
            /\ done' = TRUE
            /\ pc' = pc
       ELSE /\ pc' = [pc EXCEPT ![t] = "gsi"]
            /\ UNCHANGED <<ret, done>>
    /\ UNCHANGED <<host, environ, lru, inst, lastRun, runs>>

\* What a body execution with outcome o leaves behind for thread t.
RunEffects(t, o, returned) ==
    /\ lastRun' = o
    /\ lru' = lru_store(lru, o)
    /\ ret' = [ret EXCEPT ![t] = returned]
    /\ runs' = runs + 1
    /\ done' = TRUE
    /\ pc' = [pc EXCEPT ![t] = "idle"]

GsiReturn(o) == Outcome("get_system_info", o.exc, o.info, <<>>, FALSE)

\* get_system_info(): the body after a miss, and the store of its result.
GsiRun(t) ==
    /\ pc[t] = "gsi"
    /\ RunEffects(t, get_system_info(host, environ),
                  GsiReturn(get_system_info(host, environ)))
    /\ UNCHANGED <<host, environ, inst, late, callsLeft>>

Report(system_info) ==
    LET r == get_supported_configs(system_info, environ)
    IN  Outcome("get_supported_configs", r.exc, system_info, r.configs, FALSE)

\* get_supported_configs(): up to the read of self._system_info, and to the
\* end when the instance or the lru_cache already holds the result.
ReportCall(t) ==
    /\ pc[t] = "idle"
    /\ callsLeft > 0
    /\ callsLeft' = callsLeft - 1
    /\ IF ~UsesSystemInfo(environ)
       THEN /\ ret' = [ret EXCEPT ![t] = Report(EmptyDict)]
            /\ UNCHANGED <<inst, pc, done, late>>
       ELSE IF inst.full
       THEN /\ ret' = [ret EXCEPT ![t] = Report(inst.val)]
            /\ UNCHANGED <<inst, pc, done, late>>
       ELSE IF lru.full
       THEN /\ inst' = Slot(TRUE, lru.val)
            /\ ret' = [ret EXCEPT ![t] = Report(lru.val)]
            /\ late' = [late EXCEPT ![t] = done]
            /\ done' = TRUE
            /\ pc' = pc
       ELSE /\ pc' = [pc EXCEPT ![t] = "rep"]
            /\ late' = [late EXCEPT ![t] = done]
            /\ UNCHANGED <<inst, ret, done>>
    /\ UNCHANGED <<host, environ, lru, lastRun, runs>>

\* The return of get_supported_configs after a body execution with outcome o:
\* an exception of the body leaves get_supported_configs.
ReportReturn(o) ==
    IF o.exc = "none" THEN Report(o.info)
    ELSE Outcome("get_supported_configs", o.exc, EmptyDict, <<>>, FALSE)

inst_store(slot, o) == IF o.exc = "none" THEN Slot(TRUE, o.info) ELSE slot

\* get_supported_configs(): the body of get_system_info after a miss, the
\* stores, and the rest of the reporter.
ReportRun(t) ==
    /\ pc[t] = "rep"
    /\ RunEffects(t, get_system_info(host, environ),
                  ReportReturn(get_system_info(host, environ)))
    /\ inst' = inst_store(inst, get_system_info(host, environ))
    /\ UNCHANGED <<host, environ, late, callsLeft>>

Next ==
    \E t \in Threads :
        GsiCall(t) \/ GsiRun(t) \/ ReportCall(t) \/ ReportRun(t)

Spec == Init /\ [][Next]_vars

\* get_system_info applied once to every host and allow-list.
InitDetect ==
    /\ host \in Hosts
    /\ environ \in DetectEnvirons
    /\ callsLeft = 1
    /\ InitProcess

NextDetect == \E t \in Threads : GsiCall(t) \/ GsiRun(t)

SpecDetect == InitDetect /\ [][NextDetect]_vars

\* get_supported_configs applied once to every override and detection result.
InitReport ==
    /\ host \in ProcHosts
    /\ environ \in ReportEnvirons
    /\ callsLeft = 1
    /\ InitProcess

NextReport == \E t \in Threads : ReportCall(t) \/ ReportRun(t)

SpecReport == InitReport /\ [][NextReport]_vars

---------------------------------------------------------------------------
(* Properties                                                              *)

Detected(t) == ret[t].op = "get_system_info"

Reported(t) == ret[t].op = "get_supported_configs"

NoOverride ==
    /\ environ.AMD_VARIANT_PROVIDER_GFX_ARCH = <<>>
    /\ environ.AMD_VARIANT_PROVIDER_ROCM_VERSION = <<>>

\* C1: detection is memoized.  A call of get_system_info() that begins after
\* an earlier call has completed (returned or raised) is served from the
\* cache: it never enters the probing body, whatever the first result was.
C1_ProbesOnFirstCallOnly ==
    \A t \in Threads : late[t] => pc[t] = "idle"

\* C2: concurrent first calls are serialized.  At most one thread at a time
\* is inside the probing body of get_system_info(); the others wait.
C2_ProbingSerialized ==
    Cardinality({t \in Threads : pc[t] = "gsi"}) <= 1

\* C3: every architecture token of a result returned by get_system_info()
\* is in the effective allow-list (AMD_PREFERRED_GFX_ARCHS, else the built-in
\* list), whichever strategy produced it.
C3_ArchsInAllowList ==
    \A t \in Threads :
        (Detected(t) /\ ret[t].exc = "none" /\ Has(ret[t].info, GFX_ARCHS))
            => \A x \in Range(ret[t].info[GFX_ARCHS]) :
                   x \in Range(GFX_CODE(environ))

\* C4: the operator override wins.  With AMD_VARIANT_PROVIDER_GFX_ARCH set to
\* a list with at least one entry, get_supported_configs returns, and its
\* architecture feature holds exactly the override split on comma / space /
\* semicolon with the empty parts dropped.
C4_ForcedArchsReported ==
    \A t \in Threads :
        (Reported(t) /\ SplitList(environ.AMD_VARIANT_PROVIDER_GFX_ARCH) # <<>>)
            => /\ ret[t].exc = "none"
               /\ \E i \in DOMAIN ret[t].configs :
                      /\ ret[t].configs[i].name = FeatureGFX
                      /\ ret[t].configs[i].values =
                             SplitList(environ.AMD_VARIANT_PROVIDER_GFX_ARCH)

\* A strict numeric major.minor.patch triplet.
IsStrictTriplet(text) ==
    /\ Len(SplitOn(text, {"."})) = 3
    /\ \A i \in 1..3 : IntOk(SplitOn(text, {"."})[i])

\* C5: a malformed AMD_VARIANT_PROVIDER_ROCM_VERSION (not a strict numeric
\* major.minor.patch triplet) makes get_supported_configs fail; here with no
\* architecture override set, so that nothing else can make the call fail.
C5_MalformedVersionRejected ==
    \A t \in Threads :
        (/\ Reported(t)
         /\ environ.AMD_VARIANT_PROVIDER_GFX_ARCH = <<>>
         /\ environ.AMD_VARIANT_PROVIDER_ROCM_VERSION # <<>>
         /\ ~IsStrictTriplet(environ.AMD_VARIANT_PROVIDER_ROCM_VERSION))
            => /\ ret[t].exc # "none"
               /\ ret[t].configs = <<>>

\* C6: get_system_info() never raises for a detection failure: every call
\* returns a (possibly empty or partial) result.
C6_DetectionNeverRaises ==
    \A t \in Threads : Detected(t) => ret[t].exc = "none"

\* The fixed precedence of the strategies, and the field each fallback is for.
Rank(s) ==
    CASE s = "rocminfo" -> 1
      [] s = "version_file" -> 2
      [] s = "rocm_agent_enumerator" -> 3
      [] s = "sysfs" -> 4
      [] s = "modinfo" -> 5

FieldOf(s) ==
    CASE s = "version_file" -> ROCM_VERSION
      [] s = "rocm_agent_enumerator" -> GFX_ARCHS
      [] s = "sysfs" -> KMD_VERSION
      [] s = "modinfo" -> KMD_VERSION

\* C7: merge precedence.  In every execution of get_system_info's body the
\* strategies run one after the other in the fixed order with rocminfo
\* first; a fallback runs only when no earlier strategy yielded its field
\* (modinfo right after a sysfs read that gave nothing); and the returned
\* value of a field is the one of the first strategy that yielded it.
C7_MergePrecedence ==
    runs > 0 =>
        /\ lastRun.steps[1].s = "rocminfo"
        /\ \A i, j \in DOMAIN lastRun.steps :
               i < j => Rank(lastRun.steps[i].s) < Rank(lastRun.steps[j].s)
        /\ \A j \in DOMAIN lastRun.steps :
               j > 1 => \A i \in 1..(j - 1) :
                            ~Has(lastRun.steps[i].got, FieldOf(lastRun.steps[j].s))
        /\ \A j \in DOMAIN lastRun.steps :
               lastRun.steps[j].s = "modinfo" => lastRun.steps[j - 1].s = "sysfs"
        /\ lastRun.exc = "none" =>
               \A i \in DOMAIN lastRun.steps :
                   \A f \in DOMAIN lastRun.steps[i].got :
                       /\ Has(lastRun.info, f)
                       /\ lastRun.info[f] = lastRun.steps[i].got[f]

\* C7's case: rocminfo yielded the architectures while rocm_agent_enumerator
\* had other ones to offer, and the version file filled the ROCm version.
C7_Witness ==
    /\ runs > 0
    /\ lastRun.exc = "none"
    /\ host.enumerator.st = "ok"
    /\ Has(lastRun.steps[1].got, GFX_ARCHS)
    /\ lastRun.info[GFX_ARCHS] # get_gfx_from_agent_enumerator(host).val
    /\ \E j \in DOMAIN lastRun.steps :
           /\ lastRun.steps[j].s = "version_file"
           /\ Has(lastRun.steps[j].got, ROCM_VERSION)

CountOf(seq, x) == Cardinality({i \in DOMAIN seq : seq[i] = x})

\* C9: the rocminfo strategy runs rocminfo once and takes all three fields
\* from that output: the ROCm version when the output states one, the KMD
\* version when it states one, and the sorted unique architecture tokens
\* when all of them are allowed.
C9_RocminfoYieldsAllThree ==
    (runs > 0 /\ host.platform = "Linux" /\ host.rocminfo.st = "ok") =>
        /\ CountOf(lastRun.spawned, "rocminfo") = 1
        /\ ROCM_VERSION_REGEX_search(host.rocminfo.out) # None
               => Has(lastRun.steps[1].got, ROCM_VERSION)
        /\ KMD_VERSION_REGEX_IN_ROCMINFO_search(host.rocminfo.out) # None
               => /\ Has(lastRun.steps[1].got, KMD_VERSION)
                  /\ lastRun.steps[1].got[KMD_VERSION] =
                         KMD_VERSION_REGEX_IN_ROCMINFO_search(host.rocminfo.out)
        /\ (/\ GFX_REGEX_findall(host.rocminfo.out) # <<>>
            /\ Range(GFX_REGEX_findall(host.rocminfo.out))
                   \subseteq Range(GFX_CODE(environ)))
               => /\ Has(lastRun.steps[1].got, GFX_ARCHS)
                  /\ lastRun.steps[1].got[GFX_ARCHS] =
                         SortedSet(Range(GFX_REGEX_findall(host.rocminfo.out)))

\* C10: with no override set, get_supported_configs reports what detection
\* found: the architecture feature with exactly the detected list, and a
\* runtime-version feature whenever a ROCm version was detected.
C10_ReportsDetected ==
    \A t \in Threads :
        (Reported(t) /\ ret[t].exc = "none" /\ NoOverride) =>
            /\ Has(ret[t].info, GFX_ARCHS) =>
                   \E i \in DOMAIN ret[t].configs :
                       /\ ret[t].configs[i].name = FeatureGFX
                       /\ ret[t].configs[i].values = ret[t].info[GFX_ARCHS]
            /\ Has(ret[t].info, ROCM_VERSION) =>
                   \E i \in DOMAIN ret[t].configs :
                       ret[t].configs[i].name = FeatureROCm

\* C11: platform gate.  On a host whose OS is not Linux no execution of
\* get_system_info's body starts, or attempts to start, an external process.
C11_NoProcessOffLinux ==
    (runs > 0 /\ host.platform # "Linux") => lastRun.spawned = <<>>

\* C12: reporter and validator agree.  Every value get_supported_configs
\* returns for a feature is accepted by validate_property for that feature.
C12_EmittedValuesValidate ==
    \A t \in Threads :
        (Reported(t) /\ ret[t].exc = "none") =>
            \A i \in DOMAIN ret[t].configs :
                \A j \in DOMAIN ret[t].configs[i].values :
                    validate_property(ret[t].configs[i].name,
                                      ret[t].configs[i].values[j])

====
